---- MODULE Spec2Model ----
(***************************************************************************)
(* Session controller of the launcher (src/components/app.rs): the         *)
(* CosmicLauncher state, its update / dbus_activation / hide handlers, the *)
(* two overlay surfaces driven by the commands the handlers return, and    *)
(* the backend task at the other end of the request channel.               *)
(***************************************************************************)
EXTENDS Integers, Sequences, FiniteSets, TLC

\* ------------------------------------------------------------------ bounds
ReqCap == 2        \* capacity of the outbound request buffer
EventCap == 1      \* capacity of the event queue backend -> controller
MaxIndex == 1      \* largest index carried by Activate / Context actions
MaxRaw == 12       \* longest raw Update list of the ranking specification
MaxTokens == 1     \* activation-token requests outstanding at once
MaxSteps == 4      \* user actions and activation signals of one behaviour

\* ------------------------------------------------------- program constants
MaxItems == 10     \* list.truncate(10)

\* ------------------------------------------------------------------ values
InputTexts == {"a", "ap"}
FillTexts == {"f"}
Points == {1}

Result(i, w) == [id |-> i, window |-> w]

\* raw batches the backend of the session specification may deliver
RawLists ==
  { <<>>,
    <<Result(1, FALSE)>>,
    <<Result(1, FALSE), Result(2, TRUE)>> }

OptionLists == { <<>>, <<1>> }

\* launcher::Request
Request(k, q, i, o) == [kind |-> k, query |-> q, id |-> i, option |-> o]
ReqClose == Request("Close", "", 0, 0)
ReqSearch(q) == Request("Search", q, 0, 0)
ReqActivate(i) == Request("Activate", "", i, 0)
ReqContext(i) == Request("Context", "", i, 0)
ReqActivateContext(i, o) == Request("ActivateContext", "", i, o)

\* launcher::Event: Started(tx) and Response(pop_launcher::Response)
Event(k, l, i, o, t, e) ==
  [kind |-> k, list |-> l, id |-> i, options |-> o, text |-> t, exec |-> e]
EvNone == Event("None", <<>>, 0, <<>>, "", FALSE)
EvStarted == Event("Started", <<>>, 0, <<>>, "", FALSE)
EvClose == Event("Close", <<>>, 0, <<>>, "", FALSE)
EvUpdate(l) == Event("Update", l, 0, <<>>, "", FALSE)
EvContext(i, o) == Event("Context", <<>>, i, o, "", FALSE)
EvFill(t) == Event("Fill", <<>>, 0, <<>>, t, FALSE)
EvDesktopEntry(e) == Event("DesktopEntry", <<>>, 0, <<>>, "", e)

\* the message a step handled
Step(o, t, i, e) == [op |-> o, text |-> t, index |-> i, ev |-> e]

VARIABLES
  input_value,      \* String
  active_surface,   \* bool
  launcher_items,   \* Vec<SearchResult>
  tx,               \* Option<mpsc::Sender>: TRUE = Some
  wait_for_result,  \* bool
  menu,             \* Option<(u32, Vec<ContextOption>)>: <<>> = None
  cursor_position,  \* Option<Point>: <<>> = None
  main_surface,     \* the layer surface WINDOW_ID exists
  menu_surface,     \* the popup MENU_ID exists
  reqq,             \* requests in the outbound buffer
  events,           \* events queued for the controller
  closed,           \* the receiving end of the request channel is gone
  token_pending,    \* request_token calls not yet answered
  reqs,             \* requests the step that began last passes to blocking_send
  cmds,             \* commands and effects of the last step, in order
  steps,            \* user actions and activation signals so far
  pend,             \* requests the step in progress waits to send
  cont,             \* the step that waits in blocking_send: <<>> = none
  last              \* the message of the step that began or returned last

ctrl == <<input_value, active_surface, launcher_items, tx, wait_for_result,
          menu, cursor_position>>
vars == <<input_value, active_surface, launcher_items, tx, wait_for_result,
          menu, cursor_position, main_surface, menu_surface, reqq, events,
          closed, token_pending, reqs, cmds, steps, pend, cont, last>>

\* ------------------------------------------------------ the Result Pipeline
\* the sort key of list.sort_by: i32::from(window.is_none())
SortKey(r) == IF r.window THEN 0 ELSE 1

\* one insertion of a stable sort: x goes behind every element whose key is
\* not greater than its own
RECURSIVE InsertByKey(_, _)
InsertByKey(s, x) ==
  IF s = <<>> THEN <<x>>
  ELSE IF SortKey(s[Len(s)]) <= SortKey(x) THEN Append(s, x)
  ELSE Append(InsertByKey(SubSeq(s, 1, Len(s) - 1), x), s[Len(s)])

\* Vec::sort_by with that key: a stable sort
RECURSIVE SortByWindow(_)
SortByWindow(list) ==
  IF list = <<>> THEN <<>>
  ELSE InsertByKey(SortByWindow(SubSeq(list, 1, Len(list) - 1)), list[Len(list)])

\* Vec::truncate
Truncate(list, n) == IF Len(list) <= n THEN list ELSE SubSeq(list, 1, n)

\* a pipeline that cuts the batch before it sorts it
RankPipelineCutsFirst(list) == SortByWindow(Truncate(list, MaxItems))

\* Response::Update: sort_by, truncate(10)
RankPipeline(list) == Truncate(SortByWindow(list), MaxItems)

\* Vec::get with a 0-based index: <<>> = None
Get(list, i) == IF i < Len(list) THEN <<list[i + 1]>> ELSE <<>>

\* --------------------------------------------------------------- plumbing
\* the surfaces after a batch of commands, applied in order
RECURSIVE MainAfter(_, _)
MainAfter(exists, c) ==
  IF c = <<>> THEN exists
  ELSE MainAfter(IF Head(c) = "get_layer_surface" THEN TRUE
                 ELSE IF Head(c) = "destroy_layer_surface" THEN FALSE
                 ELSE exists, Tail(c))

RECURSIVE MenuAfter(_, _)
MenuAfter(exists, c) ==
  IF c = <<>> THEN exists
  ELSE MenuAfter(IF Head(c) = "get_popup" THEN TRUE
                 ELSE IF Head(c) = "destroy_popup" THEN FALSE
                 ELSE exists, Tail(c))

\* the Command a handler returns, run by the runtime
Issue(c) ==
  /\ cmds' = c
  /\ main_surface' = MainAfter(main_surface, c)
  /\ menu_surface' = MenuAfter(menu_surface, c)

\* the controller is inside a blocking_send that waits for room
blocked == pend # <<>>

\* how many of the requests rs the buffer has room for
Room(rs) ==
  IF Len(rs) <= ReqCap - Len(reqq) THEN Len(rs) ELSE ReqCap - Len(reqq)

\* blocking_send of the requests rs has to wait: the channel is open and
\* the buffer has not room for all of them
Waits(rs) == ~closed /\ Len(rs) > ReqCap - Len(reqq)

\* a send that queues its requests on a closed channel too, as after a
\* reconnection
SendReconnects(rs) ==
  /\ reqs' = rs
  /\ reqq' = reqq \o SubSeq(rs, 1, Room(rs))
  /\ pend' = SubSeq(rs, Room(rs) + 1, Len(rs))
  /\ cont' = IF Len(rs) > Room(rs) THEN <<last'>> ELSE <<>>

\* Sender::blocking_send of each request of rs in turn: it fails (ignored)
\* when the channel is closed and waits while the buffer has no room. The
\* requests the buffer has room for are queued at once; with the others the
\* step waits, and cont keeps which step it is: what the handler does
\* behind the send is done when the send returns.
Send(rs) ==
  /\ reqs' = rs
  /\ reqq' = IF closed THEN reqq ELSE reqq \o SubSeq(rs, 1, Room(rs))
  /\ pend' = IF closed THEN <<>> ELSE SubSeq(rs, Room(rs) + 1, Len(rs))
  /\ cont' = IF Waits(rs) THEN <<last'>> ELSE <<>>

\* a send that does not look whether a handle is stored
SendUnguarded(rs) == Send(rs)

\* `if let Some(tx) = &self.tx { blocking_send(r) }` for each r of rs
SendIfTx(rs) == Send(IF tx THEN rs ELSE <<>>)

\* ------------------------------------------------------ CosmicLauncher::hide
\* the commands of a hide that leaves the popup to go with its parent
HideCommandsMainOnly ==
  IF active_surface THEN <<"destroy_layer_surface">> ELSE <<>>

HideCommands ==
  IF active_surface
  THEN <<"destroy_layer_surface">>
       \o (IF menu # <<>> THEN <<"destroy_popup">> ELSE <<>>)
  ELSE <<>>

\* the requests of hide
HideRequests == <<ReqClose, ReqSearch("")>>

\* hide behind its two sends
hideReturns(before) ==
  /\ active_surface' = FALSE
  /\ menu' = IF active_surface THEN <<>> ELSE menu
  /\ Issue(before \o HideCommands)

\* a hide that destroys the surfaces whether or not one is active
hideDestroysAlways(before) ==
  /\ input_value' = ""
  /\ SendIfTx(HideRequests)
  /\ IF tx /\ Waits(HideRequests)
     THEN UNCHANGED <<active_surface, menu>> /\ Issue(before)
     ELSE /\ active_surface' = FALSE
          /\ menu' = <<>>
          /\ Issue(before \o <<"destroy_layer_surface", "destroy_popup">>)
  /\ UNCHANGED <<launcher_items, tx, wait_for_result, cursor_position>>

\* a hide that restarts the search before it closes the backend session
hideSearchFirst(before) ==
  /\ input_value' = ""
  /\ SendIfTx(<<ReqSearch(""), ReqClose>>)
  /\ IF tx /\ Waits(HideRequests)
     THEN UNCHANGED <<active_surface, menu>> /\ Issue(before)
     ELSE hideReturns(before)
  /\ UNCHANGED <<launcher_items, tx, wait_for_result, cursor_position>>

\* before: what the caller did ahead of hide. The fields behind the sends
\* are assigned, and the commands returned, when the sends have returned.
hide(before) ==
  /\ input_value' = ""
  /\ SendIfTx(HideRequests)
  /\ IF tx /\ Waits(HideRequests)
     THEN UNCHANGED <<active_surface, menu>> /\ Issue(before)
     ELSE hideReturns(before)
  /\ UNCHANGED <<launcher_items, tx, wait_for_result, cursor_position>>

\* --------------------------------------------------------------- state
Init ==
  /\ input_value = ""
  /\ active_surface = FALSE
  /\ launcher_items = <<>>
  /\ tx = FALSE
  /\ wait_for_result = FALSE
  /\ menu = <<>>
  /\ cursor_position = <<>>
  /\ main_surface = FALSE
  /\ menu_surface = FALSE
  /\ reqq = <<>>
  /\ events = <<EvStarted>>
  /\ closed = FALSE
  /\ token_pending = 0
  /\ reqs = <<>>
  /\ cmds = <<>>
  /\ steps = 0
  /\ pend = <<>>
  /\ cont = <<>>
  /\ last = Step("init", "", 0, EvNone)

\* a user action or an activation signal: the model follows MaxSteps of them.
\* The single-threaded loop takes none while a step waits in blocking_send.
Stimulus == ~blocked /\ steps < MaxSteps /\ steps' = steps + 1

\* ------------------------------------------------------ update: messages
\* The messages of view_window and of the raw event listener are produced
\* by a surface: each is handled only while the surface it comes from
\* exists. The activation signal and the launcher events come from outside
\* the surfaces and are handled in every state.
\* an InputChanged that coalesces: a Search still waiting in the buffer is
\* replaced by the new one
InputChangedCoalescing(value) ==
  /\ main_surface
  /\ Stimulus
  /\ last' = Step("InputChanged", value, 0, EvNone)
  /\ input_value' = value
  /\ reqs' = <<ReqSearch(value)>>
  /\ reqq' = IF reqq # <<>> /\ reqq[Len(reqq)].kind = "Search"
             THEN Append(SubSeq(reqq, 1, Len(reqq) - 1), ReqSearch(value))
             ELSE Append(reqq, ReqSearch(value))
  /\ Len(reqq') <= ReqCap
  /\ pend' = <<>>
  /\ cont' = <<>>
  /\ Issue(<<>>)
  /\ UNCHANGED <<active_surface, launcher_items, tx, wait_for_result, menu,
                 cursor_position, events, closed, token_pending>>

\* Message::InputChanged(value)
InputChanged(value) ==
  /\ main_surface
  /\ Stimulus
  /\ last' = Step("InputChanged", value, 0, EvNone)
  /\ input_value' = value
  /\ SendIfTx(<<ReqSearch(value)>>)
  /\ Issue(<<>>)
  /\ UNCHANGED <<active_surface, launcher_items, tx, wait_for_result, menu,
                 cursor_position, events, closed, token_pending>>

\* an Activate that clamps the index to the last stored result
ActivateClamped(i) ==
  /\ main_surface
  /\ Stimulus
  /\ last' = Step("Activate", "", i, EvNone)
  /\ LET n == Len(launcher_items)
         item == Get(launcher_items, IF i < n \/ n = 0 THEN i ELSE n - 1)
     IN SendIfTx(IF item # <<>> THEN <<ReqActivate(item[1].id)>> ELSE <<>>)
  /\ Issue(<<>>)
  /\ UNCHANGED <<ctrl, events, closed, token_pending>>

\* Message::Activate(i)
Activate(i) ==
  /\ main_surface
  /\ Stimulus
  /\ last' = Step("Activate", "", i, EvNone)
  /\ LET item == Get(launcher_items, i)
     IN SendIfTx(IF item # <<>> THEN <<ReqActivate(item[1].id)>> ELSE <<>>)
  /\ Issue(<<>>)
  /\ UNCHANGED <<ctrl, events, closed, token_pending>>

\* a Context that, with a menu open, closes it and asks for the menu of
\* the new target
ContextSwitchesTarget(i) ==
  /\ main_surface
  /\ Stimulus
  /\ last' = Step("Context", "", i, EvNone)
  /\ menu' = <<>>
  /\ LET item == Get(launcher_items, i)
     IN SendIfTx(IF item # <<>> THEN <<ReqContext(item[1].id)>> ELSE <<>>)
  /\ Issue(IF menu # <<>> THEN <<"destroy_popup">> ELSE <<>>)
  /\ UNCHANGED <<input_value, active_surface, launcher_items, tx,
                 wait_for_result, cursor_position, events, closed,
                 token_pending>>

\* Message::Context(i)
Context(i) ==
  /\ main_surface
  /\ Stimulus
  /\ last' = Step("Context", "", i, EvNone)
  /\ IF menu # <<>>
     THEN /\ menu' = <<>>
          /\ Send(<<>>)
          /\ Issue(<<"destroy_popup">>)
     ELSE /\ menu' = menu
          /\ LET item == Get(launcher_items, i)
             IN SendIfTx(IF item # <<>> THEN <<ReqContext(item[1].id)>> ELSE <<>>)
          /\ Issue(<<>>)
  /\ UNCHANGED <<input_value, active_surface, launcher_items, tx,
                 wait_for_result, cursor_position, events, closed,
                 token_pending>>

\* Message::CursorMoved(pos)
CursorMoved(pos) ==
  /\ main_surface
  /\ Stimulus
  /\ last' = Step("CursorMoved", "", pos, EvNone)
  /\ cursor_position' = <<pos>>
  /\ Send(<<>>)
  /\ Issue(<<>>)
  /\ UNCHANGED <<input_value, active_surface, launcher_items, tx,
                 wait_for_result, menu, events, closed, token_pending>>

\* Message::MenuButton(i, context): pressed on a button of the Menu view,
\* which shows one button per option of self.menu
MenuButton(i, context) ==
  /\ menu_surface
  /\ Stimulus
  /\ last' = Step("MenuButton", "", i, EvNone)
  /\ IF menu # <<>>
     THEN /\ menu' = <<>>
          /\ Send(<<>>)
          /\ Issue(<<"destroy_popup">>)
     ELSE /\ menu' = menu
          /\ SendIfTx(<<ReqActivateContext(i, context)>>)
          /\ Issue(<<>>)
  /\ UNCHANGED <<input_value, active_surface, launcher_items, tx,
                 wait_for_result, cursor_position, events, closed,
                 token_pending>>

\* Message::CloseContextMenu
CloseContextMenu ==
  /\ main_surface
  /\ Stimulus
  /\ last' = Step("CloseContextMenu", "", 0, EvNone)
  /\ menu' = <<>>
  /\ Send(<<>>)
  /\ Issue(IF menu # <<>> THEN <<"destroy_popup">> ELSE <<>>)
  /\ UNCHANGED <<input_value, active_surface, launcher_items, tx,
                 wait_for_result, cursor_position, events, closed,
                 token_pending>>

\* an Escape that runs hide whether or not a menu is open
HideIgnoresMenu ==
  /\ main_surface
  /\ Stimulus
  /\ last' = Step("Hide", "", 0, EvNone)
  /\ hide(<<>>)
  /\ UNCHANGED <<events, closed, token_pending>>

\* Message::Hide, sent for KeyCode::Escape
Hide ==
  /\ main_surface
  /\ Stimulus
  /\ last' = Step("Hide", "", 0, EvNone)
  /\ IF menu # <<>>
     THEN /\ menu' = <<>>
          /\ Send(<<>>)
          /\ Issue(<<"destroy_popup">>)
          /\ UNCHANGED <<input_value, active_surface, launcher_items, tx,
                         wait_for_result, cursor_position>>
     ELSE hide(<<>>)
  /\ UNCHANGED <<events, closed, token_pending>>

\* Message::Layer(LayerEvent::Unfocused)
Unfocused ==
  /\ main_surface
  /\ Stimulus
  /\ last' = Step("Unfocused", "", 0, EvNone)
  /\ hide(<<>>)
  /\ UNCHANGED <<events, closed, token_pending>>

\* Message::Layer(LayerEvent::Focused)
Focused ==
  /\ main_surface
  /\ Stimulus
  /\ last' = Step("Focused", "", 0, EvNone)
  /\ Send(<<>>)
  /\ Issue(<<"focus">>)
  /\ UNCHANGED <<ctrl, events, closed, token_pending>>

\* Message::Layer(LayerEvent::Done)
Done ==
  /\ main_surface
  /\ Stimulus
  /\ last' = Step("Done", "", 0, EvNone)
  /\ Send(<<>>)
  /\ Issue(<<>>)
  /\ UNCHANGED <<ctrl, events, closed, token_pending>>

\* the keyboard_nav messages update names, and one of those it leaves to
\* the `_ => {}` arm
NavMessages == {"FocusNext", "FocusPrevious", "Unfocus", "Escape"}

\* Message::KeyboardNav(e)
KeyboardNav(e) ==
  /\ main_surface
  /\ Stimulus
  /\ last' = Step("KeyboardNav", e, 0, EvNone)
  /\ IF e = "Unfocus"
     THEN /\ input_value' = ""
          /\ SendIfTx(<<ReqSearch("")>>)
          /\ Issue(IF tx /\ Waits(<<ReqSearch("")>>) THEN <<>>
                   ELSE <<"unfocus">>)
     ELSE /\ input_value' = input_value
          /\ Send(<<>>)
          /\ Issue(IF e = "FocusNext" THEN <<"focus_next">>
                   ELSE IF e = "FocusPrevious" THEN <<"focus_previous">>
                   ELSE <<>>)
  /\ UNCHANGED <<active_surface, launcher_items, tx, wait_for_result, menu,
                 cursor_position, events, closed, token_pending>>

\* Message::ActivationToken(token, exec): the reply to request_token
ActivationToken(token) ==
  /\ UNCHANGED steps
  /\ ~blocked
  /\ token_pending > 0
  /\ last' = Step("ActivationToken", IF token THEN "token" ELSE "", 0, EvNone)
  /\ token_pending' = token_pending - 1
  /\ hide(<<IF token THEN "spawn_with_token" ELSE "spawn_without_token">>)
  /\ UNCHANGED <<events, closed>>

\* ------------------------------------------------ update: launcher events
\* the next event of the launcher subscription, if it is of kind k
NextEvent(k) == ~blocked /\ events # <<>> /\ Head(events).kind = k

\* launcher::Event::Started(tx)
Started ==
  /\ UNCHANGED steps
  /\ NextEvent("Started")
  /\ last' = Step("LauncherEvent", "", 0, Head(events))
  /\ events' = Tail(events)
  /\ Send(<<ReqSearch("")>>)
  /\ tx' = (tx \/ ~Waits(<<ReqSearch("")>>))
  /\ Issue(<<>>)
  /\ UNCHANGED <<input_value, active_surface, launcher_items,
                 wait_for_result, menu, cursor_position, closed,
                 token_pending>>

\* pop_launcher::Response::Close
ResponseClose ==
  /\ UNCHANGED steps
  /\ NextEvent("Close")
  /\ last' = Step("LauncherEvent", "", 0, Head(events))
  /\ events' = Tail(events)
  /\ hide(<<>>)
  /\ UNCHANGED <<closed, token_pending>>

\* pop_launcher::Response::Context { id, options }
ResponseContext ==
  /\ UNCHANGED steps
  /\ NextEvent("Context")
  /\ last' = Step("LauncherEvent", "", 0, Head(events))
  /\ events' = Tail(events)
  /\ LET e == Head(events)
     IN IF e.options = <<>>
        THEN menu' = menu /\ Issue(<<>>)
        ELSE /\ menu' = <<[id |-> e.id, options |-> e.options]>>
             /\ Issue(IF cursor_position = <<>> THEN <<>> ELSE <<"get_popup">>)
  /\ Send(<<>>)
  /\ UNCHANGED <<input_value, active_surface, launcher_items, tx,
                 wait_for_result, cursor_position, closed, token_pending>>

\* a DesktopEntry handler that asks for a token whether or not the entry
\* has an Exec field
ResponseDesktopEntryAlwaysAsks ==
  /\ UNCHANGED steps
  /\ NextEvent("DesktopEntry")
  /\ last' = Step("LauncherEvent", "", 0, Head(events))
  /\ events' = Tail(events)
  /\ token_pending' = token_pending + 1
  /\ Issue(<<"request_token">>)
  /\ Send(<<>>)
  /\ UNCHANGED <<ctrl, closed>>

\* pop_launcher::Response::DesktopEntry { path, .. }: exec tells whether
\* load_desktop_file finds an entry with an Exec field
ResponseDesktopEntry ==
  /\ UNCHANGED steps
  /\ NextEvent("DesktopEntry")
  /\ last' = Step("LauncherEvent", "", 0, Head(events))
  /\ events' = Tail(events)
  /\ IF Head(events).exec
     THEN token_pending' = token_pending + 1 /\ Issue(<<"request_token">>)
     ELSE token_pending' = token_pending /\ Issue(<<>>)
  /\ Send(<<>>)
  /\ UNCHANGED <<ctrl, closed>>

\* pop_launcher::Response::Update(list)
ResponseUpdate ==
  /\ UNCHANGED steps
  /\ NextEvent("Update")
  /\ last' = Step("LauncherEvent", "", 0, Head(events))
  /\ events' = Tail(events)
  /\ launcher_items' = RankPipeline(Head(events).list)
  /\ wait_for_result' = FALSE
  /\ Issue(IF wait_for_result THEN <<"get_layer_surface">> ELSE <<>>)
  /\ Send(<<>>)
  /\ UNCHANGED <<input_value, active_surface, tx, menu, cursor_position,
                 closed, token_pending>>

\* pop_launcher::Response::Fill(s)
ResponseFill ==
  /\ UNCHANGED steps
  /\ NextEvent("Fill")
  /\ last' = Step("LauncherEvent", "", 0, Head(events))
  /\ events' = Tail(events)
  /\ input_value' = Head(events).text
  /\ Issue(<<"focus">>)
  /\ Send(<<>>)
  /\ UNCHANGED <<active_surface, launcher_items, tx, wait_for_result, menu,
                 cursor_position, closed, token_pending>>

\* ------------------------------------------------------- dbus_activation
\* the branch of a session that is not active, behind its send
activationReturns ==
  /\ input_value' = ""
  /\ active_surface' = TRUE
  /\ wait_for_result' = TRUE
  /\ Issue(<<>>)

\* DbusActivationDetails: Activate, or one of the kinds that do nothing
ActivationDetails == {"Activate", "Open"}

\* msg: the details of the signal, "Activate" or another kind
dbus_activation(msg) ==
  /\ Stimulus
  /\ last' = Step("dbus_activation", msg, 0, EvNone)
  /\ IF msg # "Activate"
     THEN Send(<<>>) /\ Issue(<<>>) /\ UNCHANGED ctrl
     ELSE IF active_surface
     THEN hide(<<>>)
     ELSE /\ SendIfTx(<<ReqSearch("")>>)
          /\ IF tx /\ Waits(<<ReqSearch("")>>)
             THEN UNCHANGED <<input_value, active_surface, wait_for_result>>
                  /\ Issue(<<>>)
             ELSE activationReturns
          /\ UNCHANGED <<launcher_items, tx, menu, cursor_position>>
  /\ UNCHANGED <<events, closed, token_pending>>

\* ------------------------------------------- the return of a waiting send
\* what the step c does behind the send it waited in
Resume(c) ==
  IF \/ c.op \in {"Hide", "Unfocused", "ActivationToken"}
     \/ c.op = "LauncherEvent" /\ c.ev.kind = "Close"
     \/ c.op = "dbus_activation" /\ active_surface
  THEN /\ hideReturns(<<>>)
       /\ UNCHANGED <<input_value, launcher_items, tx, wait_for_result,
                      cursor_position>>
  ELSE IF c.op = "dbus_activation"
  THEN /\ activationReturns
       /\ UNCHANGED <<launcher_items, tx, menu, cursor_position>>
  ELSE IF c.op = "LauncherEvent" /\ c.ev.kind = "Started"
  THEN /\ tx' = TRUE
       /\ Issue(<<>>)
       /\ UNCHANGED <<input_value, active_surface, launcher_items,
                      wait_for_result, menu, cursor_position>>
  ELSE IF c.op = "KeyboardNav"
  THEN Issue(<<"unfocus">>) /\ UNCHANGED ctrl
  ELSE Issue(<<>>) /\ UNCHANGED ctrl

\* a blocking_send that waited returns: with room in the buffer its request
\* is queued, on a closed channel it and the sends behind it fail. When it
\* was the last send of the step, the step goes on to its end.
SendCompletes ==
  /\ blocked
  /\ closed \/ Len(reqq) < ReqCap
  /\ reqq' = IF closed THEN reqq ELSE Append(reqq, Head(pend))
  /\ pend' = IF closed THEN <<>> ELSE Tail(pend)
  /\ reqs' = <<>>
  /\ IF pend' = <<>>
     THEN /\ Resume(cont[1])
          /\ cont' = <<>>
          /\ last' = cont[1]
     ELSE /\ cmds' = <<>>
          /\ last' = Step("blocking_send", "", 0, EvNone)
          /\ UNCHANGED <<ctrl, main_surface, menu_surface, cont>>
  /\ UNCHANGED <<events, closed, token_pending, steps>>

\* ------------------------------------------------------- the backend task
\* token requests the responses in flight will still cause
RECURSIVE Executables(_)
Executables(q) ==
  IF q = <<>> THEN 0
  ELSE (IF Head(q).kind = "DesktopEntry" /\ Head(q).exec THEN 1 ELSE 0)
       + Executables(Tail(q))

\* what the backend may answer to a request: at most one response
Answers(r) ==
  CASE r.kind = "Search" -> { <<EvUpdate(l)>> : l \in RawLists }
    [] r.kind = "Context" -> { <<EvContext(r.id, o)>> : o \in OptionLists }
    [] r.kind \in {"Activate", "ActivateContext"} ->
         { <<EvClose>>, <<EvDesktopEntry(FALSE)>> }
         \cup { <<EvFill(t)>> : t \in FillTexts }
         \cup (IF token_pending + Executables(events) < MaxTokens
               THEN { <<EvDesktopEntry(TRUE)>> } ELSE {})
    [] OTHER -> { <<>> }

\* the task takes one request off the channel and queues its answer
Backend ==
  /\ ~closed
  /\ reqq # <<>>
  /\ \E a \in Answers(Head(reqq)) :
       /\ Len(events) + Len(a) <= EventCap
       /\ events' = events \o a
  /\ reqq' = Tail(reqq)
  /\ reqs' = <<>>
  /\ cmds' = <<>>
  /\ last' = Step("Backend", "", 0, EvNone)
  /\ UNCHANGED <<ctrl, main_surface, menu_surface, closed, token_pending,
                 steps, pend, cont>>

\* the backend process exits: the task drops the receiving end
BackendExit ==
  /\ ~closed
  /\ closed' = TRUE
  /\ reqq' = <<>>
  /\ reqs' = <<>>
  /\ cmds' = <<>>
  /\ last' = Step("BackendExit", "", 0, EvNone)
  /\ UNCHANGED <<ctrl, main_surface, menu_surface, events, token_pending,
                 steps, pend, cont>>

\* ------------------------------------------------------------ the session
\* the option ids the Menu view shows a button for
MenuOptions ==
  IF menu = <<>> THEN {}
  ELSE { menu[1].options[k] : k \in 1..Len(menu[1].options) }

Next ==
  \/ \E value \in InputTexts : InputChanged(value)
  \/ \E i \in 0..MaxIndex : Activate(i)
  \/ \E i \in 0..MaxIndex : Context(i)
  \/ \E pos \in Points : CursorMoved(pos)
  \/ \E o \in MenuOptions : MenuButton(menu[1].id, o)
  \/ CloseContextMenu
  \/ Hide
  \/ Unfocused
  \/ Focused
  \/ Done
  \/ \E e \in NavMessages : KeyboardNav(e)
  \/ \E token \in BOOLEAN : ActivationToken(token)
  \/ SendCompletes
  \/ Started
  \/ ResponseClose
  \/ ResponseContext
  \/ ResponseDesktopEntry
  \/ ResponseUpdate
  \/ ResponseFill
  \/ \E msg \in ActivationDetails : dbus_activation(msg)
  \/ Backend
  \/ BackendExit

Spec == Init /\ [][Next]_vars

\* ------------------------------------------- the session with a fair backend
\* the event loop takes the next event of the launcher subscription
LauncherEvent ==
  \/ Started
  \/ ResponseClose
  \/ ResponseContext
  \/ ResponseDesktopEntry
  \/ ResponseUpdate
  \/ ResponseFill

\* the answer to a request_token arrives
TokenAnswer == \E token \in BOOLEAN : ActivationToken(token)

\* the backend process does not exit
NextLive ==
  \/ \E value \in InputTexts : InputChanged(value)
  \/ \E i \in 0..MaxIndex : Activate(i)
  \/ \E i \in 0..MaxIndex : Context(i)
  \/ \E pos \in Points : CursorMoved(pos)
  \/ \E o \in MenuOptions : MenuButton(menu[1].id, o)
  \/ CloseContextMenu
  \/ Hide
  \/ Unfocused
  \/ Focused
  \/ Done
  \/ \E e \in NavMessages : KeyboardNav(e)
  \/ SendCompletes
  \/ \E msg \in ActivationDetails : dbus_activation(msg)
  \/ TokenAnswer
  \/ LauncherEvent
  \/ Backend

\* The task answers every request it can queue an answer to, the loop takes
\* every event queued for it and a send that finds room returns; the user and the activation signal owe
\* nothing.
SpecLive ==
  /\ Init
  /\ [][NextLive]_vars
  /\ WF_vars(Backend)
  /\ WF_vars(LauncherEvent)
  /\ WF_vars(TokenAnswer)
  /\ WF_vars(SendCompletes)

\* ------------------------------------------------- the ranking on its own
\* raw batches of up to MaxRaw results, the id of each its position
RawBatches ==
  UNION { { [k \in 1..n |-> Result(k, w[k])] : w \in [1..n -> BOOLEAN] }
          : n \in 0..MaxRaw }

\* the session awaiting its first result, the Update of one raw batch queued
InitRank ==
  /\ input_value = ""
  /\ active_surface = TRUE
  /\ launcher_items = <<>>
  /\ tx = TRUE
  /\ wait_for_result = TRUE
  /\ menu = <<>>
  /\ cursor_position = <<>>
  /\ main_surface = FALSE
  /\ menu_surface = FALSE
  /\ reqq = <<>>
  /\ events \in { <<EvUpdate(l)>> : l \in RawBatches }
  /\ closed = FALSE
  /\ token_pending = 0
  /\ reqs = <<>>
  /\ cmds = <<>>
  /\ steps = 1
  /\ pend = <<>>
  /\ cont = <<>>
  /\ last = Step("Backend", "", 0, EvNone)

NextRank == ResponseUpdate

SpecRank == InitRank /\ [][NextRank]_vars

\* --------------------------------------------------- the digit key mapping
\* KeyCode values of the main row and of the numpad, by digit, and a key the
\* mapping does not name
KeyRow == <<"Key0", "Key1", "Key2", "Key3", "Key4", "Key5", "Key6", "Key7",
            "Key8", "Key9">>
NumpadRow == <<"Numpad0", "Numpad1", "Numpad2", "Numpad3", "Numpad4",
               "Numpad5", "Numpad6", "Numpad7", "Numpad8", "Numpad9">>
KeyCodes ==
  { KeyRow[d + 1] : d \in 0..9 } \cup { NumpadRow[d + 1] : d \in 0..9 }
  \cup {"A"}

\* the digit arms of `match key_code` for Keyboard::KeyReleased, tried in
\* the order they are written: the index of the Activate message produced,
\* <<>> for None
KeyReleased(key_code, control) ==
  IF key_code \in {"Key1", "Numpad1"} /\ control THEN <<0>>
  ELSE IF key_code \in {"Key2", "Numpad2"} /\ control THEN <<1>>
  ELSE IF key_code \in {"Key3", "Numpad3"} /\ control THEN <<2>>
  ELSE IF key_code \in {"Key4", "Numpad4"} /\ control THEN <<3>>
  ELSE IF key_code \in {"Key5", "Numpad5"} /\ control THEN <<4>>
  ELSE IF key_code \in {"Key6", "Numpad6"} /\ control THEN <<5>>
  ELSE IF key_code \in {"Key7", "Numpad7"} /\ control THEN <<6>>
  ELSE IF key_code \in {"Key8", "Numpad7"} /\ control THEN <<7>>
  ELSE IF key_code \in {"Key9", "Numpad9"} /\ control THEN <<8>>
  ELSE IF key_code \in {"Key0", "Numpad0"} /\ control THEN <<9>>
  ELSE <<>>

\* the message the key event recorded in last produces
KeyMessage ==
  IF last.op = "KeyReleased" THEN KeyReleased(last.text, last.index = 1)
  ELSE <<>>

\* listen_raw hands a KeyReleased event to the closure; last keeps the key
\* and, as index, whether the control modifier is held
listen_raw(key_code, control) ==
  /\ main_surface
  /\ ~blocked
  /\ KeyMessage = <<>>
  /\ last' = Step("KeyReleased", key_code, IF control THEN 1 ELSE 0, EvNone)
  /\ reqs' = <<>>
  /\ cmds' = <<>>
  /\ UNCHANGED <<ctrl, main_surface, menu_surface, reqq, events, closed,
                 token_pending, steps, pend, cont>>

\* the runtime delivers the message the closure returned
KeyActivate ==
  /\ KeyMessage # <<>>
  /\ Activate(KeyMessage[1])

\* a shown session with n results
InitKeys ==
  /\ input_value = ""
  /\ active_surface = TRUE
  /\ launcher_items \in
       { [k \in 1..n |-> Result(k, FALSE)] : n \in 0..MaxItems }
  /\ tx = TRUE
  /\ wait_for_result = FALSE
  /\ menu = <<>>
  /\ cursor_position = <<>>
  /\ main_surface = TRUE
  /\ menu_surface = FALSE
  /\ reqq = <<>>
  /\ events = <<>>
  /\ closed = FALSE
  /\ token_pending = 0
  /\ reqs = <<>>
  /\ cmds = <<>>
  /\ steps = 0
  /\ pend = <<>>
  /\ cont = <<>>
  /\ last = Step("init", "", 0, EvNone)

NextKeys ==
  \/ \E key_code \in KeyCodes, control \in BOOLEAN :
       listen_raw(key_code, control)
  \/ KeyActivate

SpecKeys == InitKeys /\ [][NextKeys]_vars

\* ================================================================ claims
\* c holds the command x
Issued(c, x) == \E k \in 1..Len(c) : c[k] = x

\* C1: in every reachable state the Main surface exists if and only if the
\* session's active_surface flag is true.
C1_MainIffActiveSurface == main_surface <=> active_surface

\* C2: the Menu surface, and the menu state, exist only while the Main
\* surface exists, also when a Context response arrives after a Hide.
C2_MenuOnlyWithMain == (menu_surface \/ menu # <<>>) => main_surface

\* C3: in every reachable state the Menu surface exists if and only if the
\* menu state is not none.
C3_MenuSurfaceIffMenuState == menu_surface <=> menu # <<>>

\* C4: every Input-changed action stores its text verbatim and issues one
\* Search request carrying that text, appended behind the requests already
\* in the buffer: nothing is coalesced, dropped or reordered.
C4_KeystrokeFidelity ==
  [][~blocked /\ last'.op = "InputChanged" =>
       /\ input_value' = last'.text
       /\ reqs' = <<ReqSearch(last'.text)>>
       /\ ~closed => reqq' \o pend' = Append(reqq, ReqSearch(last'.text))]_vars

\* two keystrokes wait in the buffer in the order they were typed
C4_Witness ==
  /\ last.op = "InputChanged"
  /\ input_value = "ap"
  /\ reqq = <<ReqSearch("a"), ReqSearch("ap")>>

\* C5: Activate(index) issues Activate(result_id) of the result stored at
\* that position when the index is a position of the stored list; an index
\* at or beyond the list length issues no request and no command and leaves
\* the session state unchanged.
C5_ActivateIndexBound ==
  [][~blocked /\ last'.op = "Activate" =>
       IF last'.index < Len(launcher_items)
       THEN reqs' = <<ReqActivate(launcher_items[last'.index + 1].id)>>
       ELSE /\ reqs' = <<>>
            /\ cmds' = <<>>
            /\ UNCHANGED <<ctrl, reqq, events, main_surface, menu_surface,
                           token_pending>>]_vars

\* an index beyond a list that is not empty was activated
C5_Witness ==
  /\ last.op = "Activate"
  /\ launcher_items # <<>>
  /\ last.index >= Len(launcher_items)
  /\ reqs = <<>>

\* C6: a Context(index) action received while a menu is open closes that
\* menu and sends no Context request, for every index.
C6_ContextTogglesOff ==
  [][~blocked /\ last'.op = "Context" /\ menu # <<>> =>
       /\ menu' = <<>>
       /\ cmds' = <<"destroy_popup">>
       /\ ~menu_surface'
       /\ reqs' = <<>>
       /\ reqq' = reqq]_vars

\* an open menu was closed by a Context action whose index is no position
\* of the stored list
C6_Witness ==
  /\ last.op = "Context"
  /\ cmds = <<"destroy_popup">>
  /\ menu = <<>>
  /\ last.index >= Len(launcher_items)
  /\ main_surface

\* C7: a Menu-create command is never issued while a Menu surface exists.
C7_NeverTwoMenus ==
  [][Issued(cmds', "get_popup") => ~menu_surface]_vars

\* C8: Escape while a menu is open closes only the menu (the Main surface
\* remains, the input text is unchanged, no request is sent); Escape with
\* no menu open runs Hide: the input is cleared, Close and Search("") are
\* sent, and an active surface is destroyed.
C8_EscapePriority ==
  [][last'.op = "Hide" =>
       IF menu # <<>>
       THEN /\ menu' = <<>>
            /\ cmds' = <<"destroy_popup">>
            /\ main_surface' /\ active_surface' = active_surface
            /\ input_value' = input_value
            /\ reqs' = <<>>
       ELSE /\ input_value' = ""
            /\ ~blocked => reqs' = <<ReqClose, ReqSearch("")>>
            /\ ~blocked' =>
                 /\ ~active_surface'
                 /\ active_surface =>
                      /\ Issued(cmds', "destroy_layer_surface")
                      /\ ~main_surface']_vars

\* Escape closed an open menu under typed text and left the Main surface
C8_Witness ==
  /\ last.op = "Hide"
  /\ cmds = <<"destroy_popup">>
  /\ main_surface
  /\ active_surface
  /\ input_value = "a"

\* the session is Hidden: no active surface flag, no Main surface
Hidden == ~active_surface /\ ~main_surface

\* the step `c` is one that runs CosmicLauncher::hide, in a session whose
\* menu state is m and whose flag is a when the step begins
CallsHide(c, m, a) ==
  \/ c.op \in {"Unfocused", "ActivationToken"}
  \/ c.op = "LauncherEvent" /\ c.ev.kind = "Close"
  \/ c.op = "Hide" /\ m = <<>>
  \/ c.op = "dbus_activation" /\ c.text = "Activate" /\ a

\* the step that led to this state ran CosmicLauncher::hide to its end:
\* every blocking_send of it has returned
RanHide ==
  /\ ~blocked
  /\ \/ last.op \in {"Unfocused", "ActivationToken"}
     \/ last.op = "LauncherEvent" /\ last.ev.kind = "Close"
     \/ last.op = "Hide" /\ cmds # <<"destroy_popup">>
     \/ last.op = "dbus_activation" /\ last.text = "Activate"
          /\ ~active_surface

\* C9 as stated: Hide run when the session is Hidden issues no
\* surface-destroy command and leaves the session state as it was, the
\* input text being empty already.
C9_HideWhenHiddenChangesNothing ==
  [][Hidden /\ RanHide' =>
       /\ ~Issued(cmds', "destroy_layer_surface")
       /\ ~Issued(cmds', "destroy_popup")
       /\ UNCHANGED ctrl]_vars

\* C9 as amended: Hide run when the session is Hidden issues no
\* surface-destroy command and leaves the session state as it was but for
\* the input text, which it clears; a Hide that follows a Hide leaves the
\* session state as the first one left it.
C9_HideIdempotent ==
  [][/\ Hidden /\ RanHide' =>
          /\ ~Issued(cmds', "destroy_layer_surface")
          /\ ~Issued(cmds', "destroy_popup")
          /\ main_surface' = main_surface /\ menu_surface' = menu_surface
          /\ input_value' = ""
          /\ UNCHANGED <<active_surface, launcher_items, tx,
                         wait_for_result, menu, cursor_position>>
     /\ RanHide /\ RanHide' => UNCHANGED ctrl /\ input_value' = ""]_vars

\* the Hide of a Close response ran on a session the Escape key had hidden
C9_Witness ==
  /\ RanHide
  /\ Hidden
  /\ last.op = "LauncherEvent"
  /\ cmds = <<>>
  /\ reqs = <<ReqClose, ReqSearch("")>>
  /\ input_value = ""

\* the results with a window, then those without, each group in its
\* original order
HasWindow(r) == r.window
HasNoWindow(r) == ~r.window
StablePartition(raw) == SelectSeq(raw, HasWindow) \o SelectSeq(raw, HasNoWindow)

\* C10: the stored list is the stable partition of the raw Update list,
\* results with a window first, each group in its original order, cut to
\* its first 10 entries; it never holds more than 10 results.
C10_Ranking ==
  last.op = "LauncherEvent" /\ last.ev.kind = "Update" =>
    LET p == StablePartition(last.ev.list)
    IN /\ Len(launcher_items) <= 10
       /\ Len(launcher_items) = (IF Len(p) < 10 THEN Len(p) ELSE 10)
       /\ \A k \in 1..Len(launcher_items) : launcher_items[k] = p[k]

\* 12 results, those at positions 2, 5 and 9 with a window: they come first,
\* then the first 7 of the others
C10_Witness ==
  /\ last.op = "LauncherEvent"
  /\ Len(last.ev.list) = 12
  /\ { k \in 1..12 : last.ev.list[k].window } = {2, 5, 9}
  /\ [k \in 1..Len(launcher_items) |-> launcher_items[k].id]
       = <<2, 5, 9, 1, 3, 4, 6, 7, 8, 10>>

\* C11: no request is issued before Started(handle) is received: a step
\* handled while no handle is stored, other than Started itself, passes
\* nothing to blocking_send, and the buffer holds no request as long as no
\* handle is stored.
C11_NoRequestBeforeStarted ==
  [][/\ ~tx /\ last'.ev.kind # "Started" => reqs' = <<>> /\ reqq' = reqq
     /\ ~tx' => reqq' = <<>>]_vars

\* a second activation signal ran hide before Started was handled
C11_Witness ==
  /\ ~tx
  /\ last.op = "dbus_activation" /\ last.text = "Activate"
  /\ ~active_surface
  /\ cmds = <<"destroy_layer_surface">>
  /\ reqs = <<>>

\* C12: every MenuButton(result_id, option_id) action, a handle present,
\* issues exactly one ActivateContext(result_id, ..) request.
C12_MenuButtonSends ==
  [][~blocked /\ last'.op = "MenuButton" /\ tx =>
       /\ Len(reqs') = 1
       /\ reqs'[1].kind = "ActivateContext"
       /\ reqs'[1].id = last'.index]_vars

\* C13: the activation signal toggles the session: received while Hidden
\* it clears the input, issues one Search("") (a handle present), sets
\* wait_for_result and issues no surface command; received in any other
\* state (awaiting the first result, or a Main surface shown) it runs Hide.
C13_ActivationToggles ==
  [][last'.op = "dbus_activation" /\ last'.text = "Activate" =>
       IF Hidden
       THEN /\ ~blocked /\ tx => reqs' = <<ReqSearch("")>>
            /\ cmds' = <<>>
            /\ ~blocked' => input_value' = "" /\ wait_for_result'
       ELSE /\ input_value' = ""
            /\ ~blocked /\ tx => reqs' = <<ReqClose, ReqSearch("")>>
            /\ ~blocked' => ~active_surface' /\ ~main_surface']_vars

\* C14: an Update response handled while the Main surface exists only
\* replaces the stored list: it issues no command, so no Main-create while
\* the Main surface exists, and input text, menu state and pointer position
\* stay as they were.
C14_UpdateWhileVisible ==
  [][last'.op = "LauncherEvent" /\ last'.ev.kind = "Update" /\ main_surface =>
       /\ cmds' = <<>>
       /\ launcher_items' = RankPipeline(last'.ev.list)
       /\ UNCHANGED <<input_value, menu, cursor_position>>]_vars

\* C15: every run of Hide clears the input text and, a handle present,
\* issues exactly Close then Search("") with nothing between them; with no
\* handle it issues no request and still does the rest: the flag is
\* cleared and an active surface is destroyed.
C15_HideRequests ==
  [][/\ ~blocked /\ CallsHide(last', menu, active_surface) =>
          /\ input_value' = ""
          /\ reqs' = (IF tx THEN <<ReqClose, ReqSearch("")>> ELSE <<>>)
          /\ ~closed => reqq' \o pend' = reqq \o reqs'
     /\ RanHide' =>
          /\ input_value' = ""
          /\ ~active_surface'
          /\ active_surface =>
               Issued(cmds', "destroy_layer_surface") /\ ~main_surface']_vars

\* losing focus ran Hide on a shown session with a menu: both requests
\* wait in the buffer and both surfaces are gone
C15_Witness ==
  /\ last.op = "Unfocused"
  /\ input_value = ""
  /\ reqq = <<ReqClose, ReqSearch("")>>
  /\ cmds = <<"destroy_layer_surface", "destroy_popup">>
  /\ ~main_surface /\ ~menu_surface

\* C16: a Context response with options, handled while the pointer
\* position is unknown, is discarded: no command and no change of the
\* session state, the menu state included.
C16_ContextDroppedWithoutPointer ==
  [][/\ last'.op = "LauncherEvent" /\ last'.ev.kind = "Context"
     /\ last'.ev.options # <<>> /\ cursor_position = <<>>
     => cmds' = <<>> /\ UNCHANGED ctrl]_vars

\* C17: once the backend task has closed the handle every send is dropped,
\* with no retry and no reconnection, and the step goes on as it would
\* have: InputChanged stores the text, Activate asks for the same result,
\* Hide clears the input and the flag and destroys the active surface.
C17_ClosedHandleDropsSends ==
  [][closed =>
       /\ closed'
       /\ reqq' = reqq
       /\ ~blocked'
       /\ ~blocked /\ last'.op = "InputChanged" =>
            input_value' = last'.text /\ reqs' = <<ReqSearch(last'.text)>>
       /\ ~blocked /\ last'.op = "Activate"
             /\ last'.index < Len(launcher_items) =>
            /\ reqs' = <<ReqActivate(launcher_items[last'.index + 1].id)>>
            /\ UNCHANGED ctrl
       /\ ~blocked /\ CallsHide(last', menu, active_surface) /\ tx =>
            reqs' = <<ReqClose, ReqSearch("")>>
       /\ RanHide' =>
            /\ input_value' = ""
            /\ ~active_surface'
            /\ active_surface =>
                 Issued(cmds', "destroy_layer_surface") /\ ~main_surface']_vars

\* Hide ran on a shown session after the handle was closed: the two
\* requests were passed to blocking_send and none is queued
C17_Witness ==
  /\ closed
  /\ RanHide
  /\ reqs = <<ReqClose, ReqSearch("")>>
  /\ reqq = <<>>
  /\ cmds = <<"destroy_layer_surface">>
  /\ ~main_surface

\* the task holds the request at the head of the buffer and cannot queue
\* any answer to it: the response queue is full
BackendWaits ==
  /\ ~closed
  /\ reqq # <<>>
  /\ \A a \in Answers(Head(reqq)) : Len(events) + Len(a) > EventCap

\* C18: a controller step blocked on a full request buffer always gets its
\* room: the controller is never waiting in blocking_send while the backend
\* task waits on the full response queue that only the controller empties.
C18_BlockedSendCompletes ==
  ~(blocked /\ Len(reqq) = ReqCap /\ BackendWaits)

\* C19: every step that clears the menu state (menu goes from some to none)
\* issues destroy_popup in that same step, a hide that also destroys the
\* Main surface included.
C19_MenuClearedIssuesDestroy ==
  [][menu # <<>> /\ menu' = <<>> => Issued(cmds', "destroy_popup")]_vars

\* the activation signal toggled the session off while a menu was open:
\* both surfaces are destroyed in the one step
C19_Witness ==
  /\ last.op = "dbus_activation" /\ last.text = "Activate"
  /\ menu = <<>>
  /\ cmds = <<"destroy_layer_surface", "destroy_popup">>

\* the activation signal has just arrived in a Hidden session (its step
\* has returned, or waits in its blocking_send) and no further activation
\* signal or user action follows
OpenedLast ==
  /\ last.op = "dbus_activation" /\ last.text = "Activate"
  /\ active_surface # blocked
  /\ ~main_surface
  /\ steps = MaxSteps

\* C20: an activation signal that arrives while Hidden and is followed by
\* no other signal or user action leads, with a fair backend that answers
\* every Search with an Update, to the Main surface being created, also
\* when the signal comes before Started.
C20_ActivationLeadsToVisible == OpenedLast ~> main_surface

\* C21: once hide has run the session is Hidden, and a Hidden session stays
\* Hidden until the next activation signal: no Update taken in between
\* issues get_layer_surface.
C21_StaysHiddenAfterHide ==
  [][/\ RanHide' => Hidden'
     /\ Hidden /\ ~(last'.op = "dbus_activation" /\ last'.text = "Activate") =>
          Hidden' /\ ~Issued(cmds', "get_layer_surface")]_vars

\* C22: hide issues destroy_layer_surface only when the Main surface
\* exists; run while the session waits for its first result it issues no
\* surface-destroy command.
C22_HideDestroysOnlyExistingMain ==
  [][RanHide' /\ Issued(cmds', "destroy_layer_surface") => main_surface]_vars

\* how many commands of c are a spawn of the entry's command line
RECURSIVE Spawns(_)
Spawns(c) ==
  IF c = <<>> THEN 0
  ELSE (IF Head(c) \in {"spawn_with_token", "spawn_without_token"}
        THEN 1 ELSE 0) + Spawns(Tail(c))

\* C23: a DesktopEntry response with an executable issues exactly one token
\* request and nothing else; the process is spawned once, in the step that
\* takes the token reply, with the token when there is one, and hide runs
\* behind the spawn in that step; a DesktopEntry response without an
\* executable issues nothing and changes nothing.
C23_DesktopEntryLaunch ==
  [][/\ last'.op = "LauncherEvent" /\ last'.ev.kind = "DesktopEntry" =>
          /\ cmds' = (IF last'.ev.exec THEN <<"request_token">> ELSE <<>>)
          /\ token_pending' =
               token_pending + (IF last'.ev.exec THEN 1 ELSE 0)
          /\ reqs' = <<>>
          /\ UNCHANGED <<ctrl, main_surface, menu_surface>>
     /\ Spawns(cmds') > 0 => last'.op = "ActivationToken"
     /\ ~blocked /\ last'.op = "ActivationToken" =>
          /\ token_pending > 0
          /\ token_pending' = token_pending - 1
          /\ Spawns(cmds') = 1
          /\ cmds'[1] = (IF last'.text = "token" THEN "spawn_with_token"
                         ELSE "spawn_without_token")
          /\ input_value' = ""
          /\ tx => reqs' = <<ReqClose, ReqSearch("")>>
     /\ ~blocked' /\ last'.op = "ActivationToken" =>
          /\ ~active_surface'
          /\ active_surface =>
               Issued(cmds', "destroy_layer_surface") /\ ~main_surface']_vars

\* the token reply came with a token: the entry was spawned with it and the
\* shown session was hidden in the same step
C23_Witness ==
  /\ last.op = "ActivationToken"
  /\ cmds = <<"spawn_with_token", "destroy_layer_surface">>
  /\ token_pending = 0
  /\ ~main_surface

\* C24: with no menu open, Context(index) issues Context(result_id) only
\* for an index that is a position of the stored list and a known pointer
\* position; otherwise it issues no request and leaves the state unchanged.
C24_ContextNeedsIndexAndPointer ==
  [][~blocked /\ last'.op = "Context" /\ menu = <<>> =>
       IF last'.index < Len(launcher_items) /\ cursor_position # <<>>
       THEN tx => reqs' = <<ReqContext(launcher_items[last'.index + 1].id)>>
       ELSE reqs' = <<>> /\ cmds' = <<>> /\ UNCHANGED ctrl]_vars

\* the digit a key code stands for, <<>> for a key that is no digit key
DigitOf(key_code) ==
  IF \E d \in 0..9 : key_code \in {KeyRow[d + 1], NumpadRow[d + 1]}
  THEN <<CHOOSE d \in 0..9 : key_code \in {KeyRow[d + 1], NumpadRow[d + 1]}>>
  ELSE <<>>

\* C25: releasing the key of digit d, main row or numpad, with control held
\* produces Activate(d - 1) for d in 1..9 and Activate(9) for 0; without
\* control the same keys produce no Activate.
C25_DigitKeys ==
  last.op = "KeyReleased" /\ DigitOf(last.text) # <<>> =>
    KeyMessage = (IF last.index = 1
                  THEN <<(DigitOf(last.text)[1] + 9) % 10>>
                  ELSE <<>>)

\* C26: whenever a context menu is open its result id is the id of a result
\* of the stored list, also when an Update replaces the list between the
\* Context request and its response or while the menu is open.
C26_MenuResultInList ==
  menu # <<>> =>
    \E k \in 1..Len(launcher_items) : launcher_items[k].id = menu[1].id

====
